---- MODULE Spec2Model ----
(***************************************************************************)
(* Model of dask-new-overlap.py: tiling of a TCZYX volume into overlapped  *)
(* dask chunks, the resumability filter over the zarr store's chunk keys,  *)
(* the overlap trimmer, the chunk writer and the driver that wires them.   *)
(*                                                                         *)
(* Four specifications share the module's variables:                       *)
(*   SpecRange   range_contains applied to bounded pairs of ranges         *)
(*   SpecFilter  check_existing_chunks applied to bounded inputs           *)
(*   SpecTile    one tile's pipeline: plan, load, process, trim, save      *)
(*   SpecDriver  the driver: store open/create, pre-flight check, scan,    *)
(*               ratios, plan, concurrent chunk writes, abort, re-run      *)
(* A variable a specification does not use stays at None.                  *)
(***************************************************************************)
EXTENDS Integers, Sequences, FiniteSets

VARIABLES
    pc,               \* position of the driver / of the function under study
    r_inner, r_outer, \* arguments of range_contains
    result,           \* value returned by the function under study
    da_chunk,         \* argument of check_existing_chunks
    existing_chunks,  \* set of TZYX storage coordinates found at startup
    chunk_ratios,     \* TZYX ratios handed to the filter
    file_array,       \* TCZYX extents of the scene
    origin,           \* <<Y_min, X_min>> of the scene rectangle
    chunk_sizes,      \* TZYX dask chunk (tile) sizes
    overlaps,         \* TZYX overlaps
    output_chunks,    \* TCZYX configured zarr chunk shape
    chunk_dict,       \* tile index -> <<t_range, z_range, y_range, x_range>>
    tile,             \* tile whose pipeline is followed (SpecTile)
    block,            \* TCZYX shape of that tile's block, or "ValueError"
    section,          \* TZYX slices save_block_to_zarr writes for that tile
    store_exists,     \* whether the output array existed when the run began
    store_chunks,     \* TCZYX chunk shape of the store actually opened
    store_keys,       \* chunk key -> set of tiles that wrote it in this run
    prev_end          \* how the previous run ended: "done" or "aborted";
                      \* None in the first run

vars == <<pc, r_inner, r_outer, result, da_chunk, existing_chunks,
          chunk_ratios, file_array, origin, chunk_sizes, overlaps,
          output_chunks, chunk_dict, tile, block, section, store_exists,
          store_chunks, store_keys, prev_end>>

None == "none"

----------------------------------------------------------------------------
(* Coordinate types *)

Axes == 1..4

\* TCZYX.TZYX: the channel entry dropped.
TZYX(v) == <<v[1], v[3], v[4], v[5]>>

Max2(a, b) == IF a >= b THEN a ELSE b
Min2(a, b) == IF a <= b THEN a ELSE b

\* math.ceil(f/c) for positive c.
CeilDiv(f, c) == (f + c - 1) \div c

----------------------------------------------------------------------------
(* Python ranges: range(start, stop, step) with step > 0 *)

PyRange(a, b) == [start |-> a, stop |-> b, step |-> 1]

\* len(r)
RangeLen(r) ==
    IF r.stop > r.start THEN (r.stop - r.start + r.step - 1) \div r.step ELSE 0

\* x in r
RangeIn(x, r) ==
    /\ r.start <= x
    /\ x < r.stop
    /\ (x - r.start) % r.step = 0

\* r[-1], for a non-empty r
RangeLast(r) == r.start + (RangeLen(r) - 1) * r.step

\* The mutation drops the test of the last element.
range_contains_nolast(ri, ro) ==
    IF RangeLen(ri) = 0 THEN TRUE
    ELSE IF ~RangeIn(ri.start, ro) THEN FALSE
    ELSE IF RangeLen(ri) = 1 THEN TRUE
    ELSE IF RangeLen(ri) = 2 THEN TRUE
    ELSE (ri.step % ro.step) = 0

range_contains(ri, ro) ==
    IF RangeLen(ri) = 0 THEN TRUE
    ELSE IF ~RangeIn(ri.start, ro) THEN FALSE
    ELSE IF RangeLen(ri) = 1 THEN TRUE
    ELSE IF ~RangeIn(RangeLast(ri), ro) THEN FALSE
    ELSE IF RangeLen(ri) = 2 THEN TRUE
    ELSE (ri.step % ro.step) = 0

----------------------------------------------------------------------------
(* SpecRange: range_contains on bounded ranges *)

MaxCoord == 5
MaxNeg == 2
MaxStep == 3

\* Scene coordinates may be negative, so the ranges start below zero.
Coords == (0 - MaxNeg)..MaxCoord

Ranges == [start : Coords, stop : Coords, step : 1..MaxStep]

IdleFilter == da_chunk = None /\ existing_chunks = None /\ chunk_ratios = None
IdleConfig ==
    /\ file_array = None /\ origin = None /\ chunk_sizes = None
    /\ overlaps = None /\ output_chunks = None /\ chunk_dict = None
IdleTile == tile = None /\ block = None /\ section = None
IdleStore ==
    /\ store_exists = None /\ store_chunks = None /\ store_keys = None
    /\ prev_end = None

InitRange ==
    /\ pc = "range_args"
    /\ r_inner \in Ranges
    /\ r_outer \in Ranges
    /\ result = None
    /\ IdleFilter /\ IdleConfig /\ IdleTile /\ IdleStore

CallRangeContains ==
    /\ pc = "range_args"
    /\ result' = range_contains(r_inner, r_outer)
    /\ pc' = "range_done"
    /\ UNCHANGED <<r_inner, r_outer, da_chunk, existing_chunks, chunk_ratios,
                   file_array, origin, chunk_sizes, overlaps, output_chunks,
                   chunk_dict, tile, block, section, store_exists,
                   store_chunks, store_keys, prev_end>>

NextRange == CallRangeContains

SpecRange == InitRange /\ [][NextRange]_vars

\* The elements of a range, enumerated one by one.
RangeElems(r) == {r.start + i * r.step : i \in 0..(RangeLen(r) - 1)}

\* C9: range_contains(inner, outer) is true exactly when every element of
\* inner is an element of outer, and it is false whenever the first or the
\* last element of a non-empty inner lies outside outer.
C9_RangeContainsIsSubset ==
    pc = "range_done" =>
        /\ result = (RangeElems(r_inner) \subseteq RangeElems(r_outer))
        /\ (/\ RangeLen(r_inner) > 0
            /\ \/ r_inner.start \notin RangeElems(r_outer)
               \/ RangeLast(r_inner) \notin RangeElems(r_outer))
           => result = FALSE

\* A strided inner range of three or more elements nested in a strided outer.
C9_Witness ==
    /\ pc = "range_done"
    /\ RangeLen(r_inner) >= 3
    /\ r_outer.step > 1
    /\ result = TRUE

----------------------------------------------------------------------------
(* Resumability filter *)

\* The mutation checks only the first storage chunk along each axis.
FilterRange_first(da_ch, ch_r) == PyRange(da_ch * ch_r, da_ch * ch_r + 1)

\* range(da_ch * ch_r, (da_ch+1) * ch_r)
FilterRange(da_ch, ch_r) == PyRange(da_ch * ch_r, (da_ch + 1) * ch_r)

\* itertools.product(*ranges) for four unit-step ranges, as the sequence it
\* yields: the last axis varies fastest.
ProductLen(rs) ==
    RangeLen(rs[1]) * RangeLen(rs[2]) * RangeLen(rs[3]) * RangeLen(rs[4])

ProductAt(rs, k) ==
    LET l2 == RangeLen(rs[2])
        l3 == RangeLen(rs[3])
        l4 == RangeLen(rs[4])
    IN  <<rs[1].start + (k \div (l2 * l3 * l4)),
          rs[2].start + ((k \div (l3 * l4)) % l2),
          rs[3].start + ((k \div l4) % l3),
          rs[4].start + (k % l4)>>

\* all(map(lambda t: t in existing, product)): stops at the first miss.
RECURSIVE AllFrom(_, _, _)
AllFrom(rs, k, existing) ==
    IF k >= ProductLen(rs) THEN TRUE
    ELSE IF ProductAt(rs, k) \notin existing THEN FALSE
    ELSE AllFrom(rs, k + 1, existing)

check_existing_chunks(da, ratios, existing) ==
    LET ranges == [i \in Axes |-> FilterRange(da[i], ratios[i])]
    IN  AllFrom(ranges, 0, existing)

----------------------------------------------------------------------------
(* SpecFilter: check_existing_chunks on bounded inputs *)

MaxIdx == 1
MaxRatio == 2

TileIdxs == (0..MaxIdx) \X (0..MaxIdx) \X (0..MaxIdx) \X (0..MaxIdx)
Ratios == (0..MaxRatio) \X (0..MaxRatio) \X (0..MaxRatio) \X (0..MaxRatio)

\* The storage coordinates of a tile, as the set the description names.
Footprint(da, ratios) ==
    {<<t, z, y, x>> :
        t \in (da[1] * ratios[1])..((da[1] + 1) * ratios[1] - 1),
        z \in (da[2] * ratios[2])..((da[2] + 1) * ratios[2] - 1),
        y \in (da[3] * ratios[3])..((da[3] + 1) * ratios[3] - 1),
        x \in (da[4] * ratios[4])..((da[4] + 1) * ratios[4] - 1)}

IdleRange == r_inner = None /\ r_outer = None

\* The store holds every storage chunk of the tile, or nothing at all.
InitFilter ==
    /\ pc = "filter_args"
    /\ da_chunk \in TileIdxs
    /\ chunk_ratios \in Ratios
    /\ existing_chunks \in {Footprint(da_chunk, chunk_ratios), {}}
    /\ result = None
    /\ IdleRange /\ IdleConfig /\ IdleTile /\ IdleStore

CallCheckExistingChunks ==
    /\ pc = "filter_args"
    /\ result' = check_existing_chunks(da_chunk, chunk_ratios, existing_chunks)
    /\ pc' = "filter_done"
    /\ UNCHANGED <<r_inner, r_outer, da_chunk, existing_chunks, chunk_ratios,
                   file_array, origin, chunk_sizes, overlaps, output_chunks,
                   chunk_dict, tile, block, section, store_exists,
                   store_chunks, store_keys, prev_end>>

\* One storage chunk of a complete footprint is removed from the store; the
\* filter is then asked again.
RemoveChunk ==
    /\ Footprint(da_chunk, chunk_ratios) \subseteq existing_chunks
    /\ \E c \in existing_chunks :
        existing_chunks' = existing_chunks \ {c}
    /\ pc' = "filter_args"
    /\ result' = None
    /\ UNCHANGED <<r_inner, r_outer, da_chunk, chunk_ratios,
                   file_array, origin, chunk_sizes, overlaps, output_chunks,
                   chunk_dict, tile, block, section, store_exists,
                   store_chunks, store_keys, prev_end>>

NextFilter == CallCheckExistingChunks \/ RemoveChunk

SpecFilter == InitFilter /\ [][NextFilter]_vars

\* C6: check_existing_chunks returns true if and only if every coordinate of
\* the product of [tile*ratio, (tile+1)*ratio) over the four axes is in
\* existing_chunks: true on a complete footprint, false once any single
\* coordinate of it is missing.
C6_FilterIffFootprintPresent ==
    pc = "filter_done" =>
        /\ result = (\A c \in Footprint(da_chunk, chunk_ratios) :
                        c \in existing_chunks)
        /\ (\E c \in Footprint(da_chunk, chunk_ratios) :
                existing_chunks = Footprint(da_chunk, chunk_ratios) \ {c})
           => result = FALSE

\* A footprint of several storage chunks with exactly one removed, refused.
C6_Witness ==
    /\ pc = "filter_done"
    /\ result = FALSE
    /\ Cardinality(Footprint(da_chunk, chunk_ratios)) >= 4
    /\ Cardinality(Footprint(da_chunk, chunk_ratios) \ existing_chunks) = 1

----------------------------------------------------------------------------
(* Tile plan builder, tile loader, transform, overlap trimmer, chunk writer *)

\* get_chunk_dims: how many chunks in each dimension.
get_chunk_dims(file_values, sizes) ==
    [i \in Axes |-> CeilDiv(TZYX(file_values)[i], sizes[i])]

\* T and Z start at 0, Y and X at the scene rectangle's corner.
AxisMin(org) == <<0, 0, org[1], org[2]>>

\* The range each of the four nested loops of load_chunks_from_czi runs over.
LoopRange(file_values, org, sizes, i) ==
    [start |-> AxisMin(org)[i],
     stop |-> AxisMin(org)[i] + TZYX(file_values)[i],
     step |-> sizes[i]]

\* The indices t_ind, z_ind, y_ind, x_ind the loops count through.
GridIdxs(file_values, org, sizes) ==
    LET n(i) == RangeLen(LoopRange(file_values, org, sizes, i))
    IN  (0..(n(1) - 1)) \X (0..(n(2) - 1)) \X (0..(n(3) - 1)) \X (0..(n(4) - 1))

\* The mutation does not clamp the window to the low edge.
WindowStart_unclamped(lo, pos, ov) == pos - ov

\* max(y - overlap.Y, Y_min)
WindowStart(lo, pos, ov) == Max2(pos - ov, lo)

\* The mutation does not clamp the window to the high edge.
WindowStop_unclamped(lo, ext, pos, size, ov) == pos + size + ov

\* min(Y_min + height, y + chunk_sizes.Y + overlap.Y)
WindowStop(lo, ext, pos, size, ov) == Min2(lo + ext, pos + size + ov)

\* t_range, z_range, y_range, x_range of the tile at index k.
Windows(file_values, org, sizes, ov, k) ==
    [i \in Axes |->
        LET lo == AxisMin(org)[i]
            pos == lo + k[i] * sizes[i]
        IN  PyRange(WindowStart(lo, pos, ov[i]),
                    WindowStop(lo, TZYX(file_values)[i], pos, sizes[i], ov[i]))]

\* The dict load_chunks_from_czi returns: the tiles the filter does not
\* skip, each with its read windows.
load_chunks_from_czi(file_values, org, sizes, ov, existing, ratios) ==
    [k \in {j \in GridIdxs(file_values, org, sizes) :
                ~check_existing_chunks(j, ratios, existing)}
        |-> Windows(file_values, org, sizes, ov, k)]

\* load_chunk, line 71: whether the containment check raises ValueError.
LoadRaises(file_values, org, w) ==
    LET X == PyRange(org[2], org[2] + file_values[5])
        Y == PyRange(org[1], org[1] + file_values[4])
    IN  ~range_contains(w[3], Y) \/ ~range_contains(w[4], X)

\* load_chunk: the TCZYX shape of the block read.
load_chunk(file_values, w) ==
    <<RangeLen(w[1]), file_values[2], RangeLen(w[2]),
      RangeLen(w[3]), RangeLen(w[4])>>

\* process_block: the denoiser returns a block of the shape it was given.
process_block(shape) == shape

\* len(a[lo:hi]) for a of length n and lo >= 0; hi is <<>> for None, or
\* <<h>> with h negative.
SliceLen(lo, hi, n) ==
    LET start == Min2(lo, n)
        stop == IF hi = <<>> THEN n ELSE Max2(n + hi[1], 0)
    IN  Max2(stop - start, 0)

\* The mutation never trims the low side.
TrimLo_never(c_i, ov) == 0

TrimLo(c_i, ov) == IF c_i > 0 THEN ov ELSE 0

TrimHi(c_i, n_i, ov) == IF ov > 0 /\ c_i < n_i - 1 THEN <<0 - ov>> ELSE <<>>

\* trim: the shape of block[*axes]; the C axis is kept whole.
trim(shape, ch_index, chunk_array, ov) ==
    LET len(i) == SliceLen(TrimLo(ch_index[i], ov[i]),
                           TrimHi(ch_index[i], chunk_array[i], ov[i]),
                           TZYX(shape)[i])
    IN  <<len(1), shape[2], len(2), len(3), len(4)>>

\* save_block_to_zarr: the TZYX slices of the section written.
SaveSection(shape, chunk_index, sizes) ==
    [i \in Axes |->
        [start |-> chunk_index[i] * sizes[i],
         stop |-> chunk_index[i] * sizes[i] + TZYX(shape)[i]]]

----------------------------------------------------------------------------
(* SpecTile: the pipeline of one tile, over bounded geometries *)

MaxExtent == 5
MaxTile == 3
MaxOverlap == 3
MaxOrigin == 2

\* The geometry the three other axes keep while one axis is varied.
BaseExtent == <<2, 2, 2, 2, 2>>
BaseTile == <<1, 1, 1, 1>>
BaseOverlap == <<1, 1, 1, 1>>

\* The end-to-end scenario of the description.
ScenarioExtent == <<4, 2, 1, 8, 8>>
ScenarioTile == <<2, 1, 4, 4>>
ScenarioOverlap == <<1, 0, 1, 1>>

Origins == {0 - MaxOrigin, 0, MaxOrigin}

\* TCZYX position of TZYX axis i.
AxisOf5(i) == IF i = 1 THEN 1 ELSE i + 1

\* One axis ranges over the bounded extents, tile sizes and overlaps (and,
\* for Y and X, origins); or the configuration is the scenario's.
InitTile ==
    /\ pc = "configured"
    /\ \/ \E a \in Axes, e \in 1..MaxExtent, s \in 1..MaxTile,
            o \in 0..MaxOverlap, y0 \in Origins, x0 \in Origins :
            /\ file_array = [BaseExtent EXCEPT ![AxisOf5(a)] = e]
            /\ chunk_sizes = [BaseTile EXCEPT ![a] = s]
            /\ overlaps = [BaseOverlap EXCEPT ![a] = o]
            /\ origin = <<y0, x0>>
       \/ /\ file_array = ScenarioExtent
          /\ chunk_sizes = ScenarioTile
          /\ overlaps = ScenarioOverlap
          /\ origin = <<0, 0>>
    /\ existing_chunks = {}
    /\ chunk_ratios = <<1, 1, 1, 1>>
    /\ output_chunks = None
    /\ chunk_dict = None
    /\ result = None /\ da_chunk = None
    /\ IdleRange /\ IdleTile /\ IdleStore

TilePlan ==
    /\ pc = "configured"
    /\ chunk_dict' = load_chunks_from_czi(file_array, origin, chunk_sizes,
                                          overlaps, existing_chunks,
                                          chunk_ratios)
    /\ pc' = "planned"
    /\ UNCHANGED <<r_inner, r_outer, result, da_chunk, existing_chunks,
                   chunk_ratios, file_array, origin, chunk_sizes, overlaps,
                   output_chunks, tile, block, section, store_exists,
                   store_chunks, store_keys, prev_end>>

TileLoad ==
    /\ pc = "planned"
    /\ \E k \in DOMAIN chunk_dict :
        /\ tile' = k
        /\ IF LoadRaises(file_array, origin, chunk_dict[k])
           THEN block' = "ValueError" /\ pc' = "load_failed"
           ELSE block' = load_chunk(file_array, chunk_dict[k]) /\ pc' = "loaded"
    /\ UNCHANGED <<r_inner, r_outer, result, da_chunk, existing_chunks,
                   chunk_ratios, file_array, origin, chunk_sizes, overlaps,
                   output_chunks, chunk_dict, section, store_exists,
                   store_chunks, store_keys, prev_end>>

TileProcess ==
    /\ pc = "loaded"
    /\ block' = process_block(block)
    /\ pc' = "processed"
    /\ UNCHANGED <<r_inner, r_outer, result, da_chunk, existing_chunks,
                   chunk_ratios, file_array, origin, chunk_sizes, overlaps,
                   output_chunks, chunk_dict, tile, section, store_exists,
                   store_chunks, store_keys, prev_end>>

TileTrim ==
    /\ pc = "processed"
    /\ block' = trim(block, tile, get_chunk_dims(file_array, chunk_sizes),
                     overlaps)
    /\ pc' = "trimmed"
    /\ UNCHANGED <<r_inner, r_outer, result, da_chunk, existing_chunks,
                   chunk_ratios, file_array, origin, chunk_sizes, overlaps,
                   output_chunks, chunk_dict, tile, section, store_exists,
                   store_chunks, store_keys, prev_end>>

TileSave ==
    /\ pc = "trimmed"
    /\ section' = SaveSection(block, tile, chunk_sizes)
    /\ pc' = "saved"
    /\ UNCHANGED <<r_inner, r_outer, result, da_chunk, existing_chunks,
                   chunk_ratios, file_array, origin, chunk_sizes, overlaps,
                   output_chunks, chunk_dict, tile, block, store_exists,
                   store_chunks, store_keys, prev_end>>

NextTile == TilePlan \/ TileLoad \/ TileProcess \/ TileTrim \/ TileSave

SpecTile == InitTile /\ [][NextTile]_vars

\* The region of the output array that belongs to the tile at index k on
\* axis i: [k*S, k*S + S), cut at the extent for the last tile.
NominalStart(k, i) == k[i] * chunk_sizes[i]
NominalStop(k, i) == Min2((k[i] + 1) * chunk_sizes[i], TZYX(file_array)[i])

\* C1: every tile's written section is [idx*S, idx*S + S) on each tiled axis,
\* and [idx*S, E) for the last tile of the axis, so that the sections of all
\* tiles partition [0, E) with no gap and no overlap, for every extent, tile
\* size and overlap.
C1_Reassembly ==
    pc = "saved" =>
        \A i \in Axes :
            /\ section[i].start = NominalStart(tile, i)
            /\ section[i].stop = NominalStop(tile, i)

\* C5: every read window the planner produces lies inside the array, T and
\* Z in [0, extent), Y and X in [origin, origin + extent), and load_chunk's
\* containment check never raises for such a window.
C5_WindowsInBounds ==
    /\ pc # "load_failed"
    /\ pc # "configured" =>
        \A k \in DOMAIN chunk_dict : \A i \in Axes :
            /\ chunk_dict[k][i].step = 1
            /\ AxisMin(origin)[i] <= chunk_dict[k][i].start
            /\ chunk_dict[k][i].stop
                   <= AxisMin(origin)[i] + TZYX(file_array)[i]

\* A tile away from the low edge of a scene with a negative Y origin, whose
\* Y window is clamped at both edges, has been loaded.
C5_Witness ==
    /\ pc = "loaded"
    /\ origin[1] < 0
    /\ tile[3] > 0
    /\ overlaps[3] > chunk_sizes[3]
    /\ chunk_dict[tile][3].start = origin[1]
    /\ chunk_dict[tile][3].stop = origin[1] + file_array[4]

Scenario ==
    /\ file_array = ScenarioExtent
    /\ chunk_sizes = ScenarioTile
    /\ overlaps = ScenarioOverlap
    /\ origin = <<0, 0>>

ScenarioTileZero ==
    /\ pc # "configured" =>
        /\ chunk_dict[<<0, 0, 0, 0>>][3] = PyRange(0, 5)
        /\ chunk_dict[<<0, 0, 0, 0>>][4] = PyRange(0, 5)
    /\ (pc = "saved" /\ tile = <<0, 0, 0, 0>>) =>
        /\ section[3] = [start |-> 0, stop |-> 4]
        /\ section[4] = [start |-> 0, stop |-> 4]

\* C8 as stated: the scenario's plan has 1x1x2x2 = 4 tiles; tile (0,0,0,0)
\* reads Y=[0,5), X=[0,5) and writes Y=[0,4), X=[0,4).
C8_Original ==
    Scenario =>
        /\ pc # "configured" =>
            /\ Cardinality(DOMAIN chunk_dict) = 4
            /\ get_chunk_dims(file_array, chunk_sizes) = <<1, 1, 2, 2>>
        /\ ScenarioTileZero

\* C8 amended: the scenario's plan has 2x1x2x2 = 8 tiles; tile (0,0,0,0)
\* reads Y=[0,5), X=[0,5) and writes Y=[0,4), X=[0,4).
C8_Scenario ==
    Scenario =>
        /\ pc # "configured" =>
            /\ Cardinality(DOMAIN chunk_dict) = 8
            /\ get_chunk_dims(file_array, chunk_sizes) = <<2, 1, 2, 2>>
        /\ ScenarioTileZero

\* The scenario's tile (0,0,0,0) has gone through load, transform, trim and
\* save.
C8_Witness == Scenario /\ pc = "saved" /\ tile = <<0, 0, 0, 0>>

----------------------------------------------------------------------------
(* Driver *)

\* The mutation forgets the divisibility test.
PreflightAxis_nomod(f_ch, d_ch) ==
    IF f_ch > d_ch THEN "Dask chunks smaller than output chunks" ELSE "ok"

\* One turn of the loop of lines 348-356: the ValueError raised, or "ok".
PreflightAxis(f_ch, d_ch) ==
    IF f_ch > d_ch THEN "Dask chunks smaller than output chunks"
    ELSE IF d_ch % f_ch # 0 THEN "Dask chunks not multiples of output chunks"
    ELSE "ok"

\* The loop over zip(output_zarr_chunks.TZYX, chunk_sizes) from axis i on:
\* the first error raised, or "ok".
RECURSIVE PreflightFrom(_, _, _)
PreflightFrom(zarr_chunks, sizes, i) ==
    IF i > 4 THEN "ok"
    ELSE IF PreflightAxis(TZYX(zarr_chunks)[i], sizes[i]) # "ok"
         THEN PreflightAxis(TZYX(zarr_chunks)[i], sizes[i])
         ELSE PreflightFrom(zarr_chunks, sizes, i + 1)

\* The set of existing chunks: each store key with its C coordinate dropped.
ExistingChunks(keys) == {TZYX(k) : k \in keys}

\* d_c // f_c over the configured output chunk shape.
ChunkRatios(sizes, out_chunks) ==
    [i \in Axes |-> sizes[i] \div TZYX(out_chunks)[i]]

\* The section save_block_to_zarr writes for the tile at index k, from its
\* read windows through load_chunk, process_block and trim.
TileSection(k) ==
    SaveSection(
        trim(process_block(
                 load_chunk(file_array,
                            Windows(file_array, origin, chunk_sizes,
                                    overlaps, k))),
             k, get_chunk_dims(file_array, chunk_sizes), overlaps),
        k, chunk_sizes)

\* The store's chunk indices a slice [start, stop) meets along one axis.
ChunkSpan(sl, f) ==
    IF sl.stop <= sl.start THEN {}
    ELSE (sl.start \div f)..((sl.stop - 1) \div f)

\* The keys of the storage chunks that output_zarr[*section] = block
\* materializes for the tile at index k: the section's chunks on T, Z, Y, X
\* and every chunk along C.
TileKeys(k) ==
    LET sec == TileSection(k)
    IN  {<<t, c, z, y, x>> :
            t \in ChunkSpan(sec[1], store_chunks[1]),
            c \in 0..(CeilDiv(file_array[2], store_chunks[2]) - 1),
            z \in ChunkSpan(sec[2], store_chunks[3]),
            y \in ChunkSpan(sec[3], store_chunks[4]),
            x \in ChunkSpan(sec[4], store_chunks[5])}

RunMaxExtent == 3
RunMaxTile == 3
RunMaxOverlap == 1
RunMaxChunk == 2
MaxChannels == 2
MaxStoreChunks == 4

\* The geometry the three other axes keep while one axis is varied.
RunBaseExtent == <<1, 1, 1, 1, 1>>
RunBaseTile == <<1, 1, 1, 1>>
RunBaseOverlap == <<0, 0, 0, 0>>
RunBaseChunks == <<1, 1, 1, 1, 1>>

\* The number of storage chunks of an array of the given shape.
NumChunks(shape, chunks) ==
    CeilDiv(shape[1], chunks[1]) * CeilDiv(shape[2], chunks[2])
        * CeilDiv(shape[3], chunks[3]) * CeilDiv(shape[4], chunks[4])
        * CeilDiv(shape[5], chunks[5])

\* One axis ranges over the bounded extents, tile sizes, overlaps and chunk
\* sizes, the store holding at most MaxStoreChunks chunks; the output array
\* is absent (the driver will create it with the
\* configured chunks) or present, empty, with a chunk shape of its own.
InitDriver ==
    /\ pc = "start"
    /\ \E a \in Axes, e \in 1..RunMaxExtent, s \in 1..RunMaxTile,
          o \in 0..RunMaxOverlap, f \in 1..RunMaxChunk,
          c \in 1..MaxChannels :
          \E cc \in 1..c :
            /\ file_array =
                   [RunBaseExtent EXCEPT ![AxisOf5(a)] = e, ![2] = c]
            /\ chunk_sizes = [RunBaseTile EXCEPT ![a] = s]
            /\ overlaps = [RunBaseOverlap EXCEPT ![a] = o]
            /\ output_chunks =
                   [RunBaseChunks EXCEPT ![AxisOf5(a)] = f, ![2] = cc]
            /\ \/ store_exists = FALSE /\ store_chunks = None
               \/ /\ store_exists = TRUE
                  /\ \E g \in 1..RunMaxChunk :
                       store_chunks =
                           [RunBaseChunks EXCEPT ![AxisOf5(a)] = g, ![2] = cc]
    /\ NumChunks(file_array,
                 IF store_exists THEN store_chunks ELSE output_chunks)
           <= MaxStoreChunks
    /\ origin = <<0, 0>>
    /\ store_keys = <<>>
    /\ existing_chunks = None
    /\ chunk_ratios = None
    /\ chunk_dict = <<>>
    /\ prev_end = None
    /\ result = None /\ da_chunk = None
    /\ IdleRange /\ IdleTile

idleRangeVars == <<r_inner, r_outer, da_chunk, tile, block, section>>
configVars == <<file_array, origin, chunk_sizes, overlaps, output_chunks>>

\* Lines 332-343: open the output array, or create it with output_chunks.
OpenStore ==
    /\ pc = "start"
    /\ IF store_exists
       THEN UNCHANGED store_chunks
       ELSE store_chunks' = output_chunks
    /\ store_exists' = TRUE
    /\ pc' = "opened"
    /\ UNCHANGED <<idleRangeVars, configVars, result, existing_chunks,
                   chunk_ratios, chunk_dict, store_keys, prev_end>>

\* Lines 347-356: the pre-flight check of the opened store's chunk shape.
Preflight ==
    /\ pc = "opened"
    /\ result' = PreflightFrom(store_chunks, chunk_sizes, 1)
    /\ pc' = IF result' = "ok" THEN "checked" ELSE "config_error"
    /\ UNCHANGED <<idleRangeVars, configVars, existing_chunks, chunk_ratios,
                   chunk_dict, store_exists, store_chunks, store_keys,
                   prev_end>>

\* Lines 359-361: the snapshot of the chunks present in the store.
ScanStore ==
    /\ pc = "checked"
    /\ existing_chunks' = ExistingChunks(DOMAIN store_keys)
    /\ pc' = "scanned"
    /\ UNCHANGED <<idleRangeVars, configVars, result, chunk_ratios,
                   chunk_dict, store_exists, store_chunks, store_keys,
                   prev_end>>

\* Line 363.
ComputeRatios ==
    /\ pc = "scanned"
    /\ chunk_ratios' = ChunkRatios(chunk_sizes, output_chunks)
    /\ pc' = "ratios"
    /\ UNCHANGED <<idleRangeVars, configVars, result, existing_chunks,
                   chunk_dict, store_exists, store_chunks, store_keys,
                   prev_end>>

\* Lines 366-367: enumerate the tiles and keep those the filter does not skip.
Plan ==
    /\ pc = "ratios"
    /\ chunk_dict' = load_chunks_from_czi(file_array, origin, chunk_sizes,
                                          overlaps, existing_chunks,
                                          chunk_ratios)
    /\ pc' = "planned"
    /\ UNCHANGED <<idleRangeVars, configVars, result, existing_chunks,
                   chunk_ratios, store_exists, store_chunks, store_keys,
                   prev_end>>

\* Lines 370-389: build the per-tile pipelines and hand them to the executor.
Submit ==
    /\ pc = "planned"
    /\ pc' = "computing"
    /\ UNCHANGED <<idleRangeVars, configVars, result, existing_chunks,
                   chunk_ratios, chunk_dict, store_exists, store_chunks,
                   store_keys, prev_end>>

Writers(key) == IF key \in DOMAIN store_keys THEN store_keys[key] ELSE {}

\* Line 260, one storage chunk at a time: the write stage of a scheduled
\* tile materializes one more of the storage chunks its section meets.
\* Write stages of different tiles interleave freely.
WriteChunk ==
    /\ pc = "computing"
    /\ \E k \in DOMAIN chunk_dict :
        \E key \in TileKeys(k) :
            /\ k \notin Writers(key)
            /\ store_keys' =
                   [q \in DOMAIN store_keys \cup {key} |->
                       IF q = key THEN Writers(key) \cup {k}
                       ELSE store_keys[q]]
    /\ UNCHANGED <<idleRangeVars, configVars, result, existing_chunks,
                   chunk_ratios, chunk_dict, store_exists, store_chunks,
                   prev_end, pc>>

\* The write stage of tile k has completed in this run: every storage chunk
\* of its section has been materialized.
WriteComplete(k) == \A key \in TileKeys(k) : k \in Writers(key)

\* dask.compute returns when every task has resolved.
ComputeReturns ==
    /\ pc = "computing"
    /\ \A k \in DOMAIN chunk_dict : WriteComplete(k)
    /\ pc' = "done"
    /\ UNCHANGED <<idleRangeVars, configVars, result, existing_chunks,
                   chunk_ratios, chunk_dict, store_exists, store_chunks,
                   store_keys, prev_end>>

\* The run is killed while tiles are being processed.
Abort ==
    /\ pc = "computing"
    /\ pc' = "aborted"
    /\ UNCHANGED <<idleRangeVars, configVars, result, existing_chunks,
                   chunk_ratios, chunk_dict, store_exists, store_chunks,
                   store_keys, prev_end>>

\* The driver is started again with the same configuration on the same store.
Restart ==
    /\ pc \in {"done", "aborted"}
    /\ prev_end' = pc
    /\ store_keys' = [q \in DOMAIN store_keys |-> {}]
    /\ existing_chunks' = None
    /\ chunk_ratios' = None
    /\ chunk_dict' = <<>>
    /\ result' = None
    /\ pc' = "start"
    /\ UNCHANGED <<idleRangeVars, configVars, store_exists, store_chunks>>

NextDriver ==
    \/ OpenStore \/ Preflight \/ ScanStore \/ ComputeRatios \/ Plan
    \/ Submit \/ WriteChunk \/ ComputeReturns \/ Abort
    \/ Restart

SpecDriver == InitDriver /\ [][NextDriver]_vars

\* Every tile of the processing grid.
AllTiles == GridIdxs(file_array, origin, chunk_sizes)

PostPlan == {"planned", "computing", "done", "aborted"}
PostCheck == {"checked", "scanned", "ratios"} \cup PostPlan

\* The store opened has the configured chunk shape (always so when the
\* driver created it).
SameChunks == store_chunks = output_chunks

\* C2: after a run that completed the write stage of every tile it
\* scheduled, a re-run on the same store with the same configuration
\* schedules no tile, also when the extent is not a multiple of the tile size
\* and the chunk ratio is greater than 1; stated for runs whose store has the
\* configured chunk shape.
C2_Resumable ==
    (prev_end = "done" /\ pc \in PostPlan /\ SameChunks) =>
        DOMAIN chunk_dict = {}

\* C3: a tile is left out of the task graph only if every storage chunk its
\* write region touches, along C as well as T, Z, Y, X, is in the store at
\* startup; stated for runs whose store has the configured chunk shape.
C3_SkipOnlyComplete ==
    (pc = "planned" /\ SameChunks) =>
        \A k \in AllTiles \ DOMAIN chunk_dict :
            TileKeys(k) \subseteq DOMAIN store_keys

BadChunks ==
    \E i \in Axes :
        \/ TZYX(store_chunks)[i] > chunk_sizes[i]
        \/ chunk_sizes[i] % TZYX(store_chunks)[i] # 0

C7_DisjointWrites ==
    /\ pc = "planned" =>
        \A k1 \in DOMAIN chunk_dict : \A k2 \in DOMAIN chunk_dict :
            k1 # k2 => TileKeys(k1) \cap TileKeys(k2) = {}
    /\ pc \in {"computing", "done", "aborted"} =>
        \A key \in DOMAIN store_keys : Cardinality(store_keys[key]) <= 1
    /\ pc = "done" =>
        \A key \in DOMAIN store_keys :
            store_keys[key] = {k \in DOMAIN chunk_dict : key \in TileKeys(k)}

\* Two tiles with overlapped windows, on an axis where a tile spans several
\* storage chunks, are writing at the same time: one has materialized only
\* part of its section while the other has written a chunk of its own.
C7_Witness ==
    /\ pc = "computing"
    /\ SameChunks
    /\ \E i \in Axes : overlaps[i] > 0 /\ chunk_ratios[i] > 1
    /\ \E k1 \in DOMAIN chunk_dict :
        \E k2 \in DOMAIN chunk_dict :
            /\ k1 # k2
            /\ \E key \in TileKeys(k1) : k1 \in Writers(key)
            /\ \E key \in TileKeys(k1) : k1 \notin Writers(key)
            /\ \E key \in TileKeys(k2) : k2 \in Writers(key)

\* C10: in every run that passes the pre-flight check the ratio handed to
\* the filter is, on every tiled axis, a positive integer equal to the tile
\* size divided by the chunk size of the store actually opened.
C10_RatioExact ==
    pc \in {"ratios"} \cup PostPlan =>
        \A i \in Axes :
            /\ chunk_ratios[i] >= 1
            /\ chunk_ratios[i] * TZYX(store_chunks)[i] = chunk_sizes[i]

====
